---- MODULE Spec2Model ----
(***************************************************************************)
(* Model of generate_alternative_routes (src/streamlit_app_matv1.py), the  *)
(* randomized via-point route search of the trail-runner dashboard, with   *)
(* the networkx / random / Python behaviour its lines rely on.             *)
(*                                                                         *)
(* Distances are metres; the float arithmetic of the source is modelled on *)
(* integer metres (every length used is an integer, so sums and absolute   *)
(* differences are exact in both).                                         *)
(***************************************************************************)
EXTENDS Integers, Sequences, FiniteSets, TLC

VARIABLES G, start, end, target_distance, tolerance, k,
          routes, attempts, pc, exc

vars == <<G, start, end, target_distance, tolerance, k, routes, attempts, pc, exc>>

(***************************************************************************)
(* Values                                                                  *)
(***************************************************************************)

\* Python's None, the "not found" result of nearest_node_manual (no node id is 0).
None == 0

\* The attempt budget of the sampling loop.
max_attempts == 1000

\* The default route count (k=3), also what the Generate Routes handler passes.
default_k == 3

\* Largest route count the general inputs draw (k ranges over 1..MaxK).
MaxK == 2


\* Target distances and tolerances (metres) the general inputs draw.
Targets == {100, 300}
Tolerances == {0, 100}

(***************************************************************************)
(* Graphs: an undirected multigraph is [nodes, edges], edges mapping an    *)
(* unordered node pair {u, v} to its parallel edges, key |-> length        *)
(* (G[u][v][key]['length']).                                               *)
(***************************************************************************)

NoEdges == [p \in {} |-> [key \in {} |-> 0]]

\* The graph provider's empty graph.
GEmpty == [nodes |-> {}, edges |-> NoEdges]

\* Nodes but zero edges.
GNoEdges == [nodes |-> {1, 2}, edges |-> NoEdges]

\* Chain 1 - 2 - 3, each edge 100 m.
GChain == [nodes |-> {1, 2, 3},
           edges |-> ({1, 2} :> (0 :> 100)) @@ ({2, 3} :> (0 :> 100))]

\* Two components: 1 - 2 and the isolated node 3.
GSplit == [nodes |-> {1, 2, 3},
           edges |-> ({1, 2} :> (0 :> 100))]

\* Parallel edges between 1 and 2 (key 0 is the longer one), 2 - 3, and 1 - 3.
GMulti == [nodes |-> {1, 2, 3},
           edges |-> ({1, 2} :> (0 :> 200 @@ 1 :> 100))
                  @@ ({2, 3} :> (0 :> 100))
                  @@ ({1, 3} :> (0 :> 200))]

\* The 5-node cycle A-B-C-D-E-A (A..E are 1..5), each edge 100 m.
GCycle == [nodes |-> {1, 2, 3, 4, 5},
           edges |-> ({1, 2} :> (0 :> 100)) @@ ({2, 3} :> (0 :> 100))
                  @@ ({3, 4} :> (0 :> 100)) @@ ({4, 5} :> (0 :> 100))
                  @@ ({5, 1} :> (0 :> 100))]

SmallGraphs == {GEmpty, GNoEdges, GChain, GSplit, GMulti}

Graphs == SmallGraphs \cup {GCycle}

\* A node id that no graph of the model contains: one past the largest.
AbsentNode == 1 + Cardinality(UNION {g.nodes : g \in Graphs})

(***************************************************************************)
(* Helpers                                                                 *)
(***************************************************************************)

Abs(x) == IF x < 0 THEN -x ELSE x

Min(S) == CHOOSE x \in S : \A y \in S : x <= y

Range(s) == {s[i] : i \in 1..Len(s)}

Last(s) == s[Len(s)]

\* v is a neighbour of u: G[u] has the key v.
Adjacent(g, u, v) == {u, v} \in DOMAIN g.edges

\* The weight networkx gives the pair (u, v) of a multigraph for weight='length':
\* the minimum 'length' over the parallel edges.
Weight(g, u, v) == Min({g.edges[{u, v}][key] : key \in DOMAIN g.edges[{u, v}]})

RECURSIVE PathWeight(_, _)
PathWeight(g, p) ==
  IF Len(p) < 2 THEN 0
  ELSE Weight(g, p[1], p[2]) + PathWeight(g, Tail(p))

\* The simple paths of g that leave s, grown edge by edge for n rounds.
RECURSIVE PathsFrom(_, _, _)
PathsFrom(g, s, n) ==
  IF n = 0 THEN {<<s>>}
  ELSE LET P == PathsFrom(g, s, n - 1)
       IN  P \cup {Append(p, v) : <<p, v>> \in
                     {pv \in P \X g.nodes :
                        /\ pv[2] \notin Range(pv[1])
                        /\ Adjacent(g, Last(pv[1]), pv[2])}}

\* Every minimum-weight path from s to t (both nodes of g); empty when t is
\* unreachable.  Which of several equally short paths Dijkstra returns is an
\* implementation detail, so every one of them is a possible result.
ShortestPaths(g, s, t) ==
  LET P == {p \in PathsFrom(g, s, Cardinality(g.nodes)) : Last(p) = t}
  IN  {p \in P : \A q \in P : PathWeight(g, p) <= PathWeight(g, q)}

\* ShortestPaths of every node pair of every graph, computed once: the rows
\* <<g, s, t, ShortestPaths(g, s, t)>>.
PathTable ==
  UNION {{<<g, st[1], st[2], ShortestPaths(g, st[1], st[2])>> :
            st \in g.nodes \X g.nodes} : g \in Graphs}

\* ShortestPaths(g, s, t), read from the table.
Dijkstra(g, s, t) ==
  (CHOOSE row \in PathTable : row[1] = g /\ row[2] = s /\ row[3] = t)[4]

(***************************************************************************)
(* nearest_node_manual: the node closest to a coordinate.  Coordinates are *)
(* not modelled: any node may be the closest one, and the scan of a graph  *)
(* without nodes leaves nearest = None.                                    *)
(***************************************************************************)
nearest_node_manual(g) == IF g.nodes = {} THEN {None} ELSE g.nodes

(***************************************************************************)
(* nx.shortest_path(G, source, target, weight='length') as called on lines *)
(* 47-48: the set of its possible results.  A result is a path (a list), a *)
(* dict of paths (what the call returns when source or target is None), or *)
(* a raised exception.  NodeNotFound is not a NetworkXNoPath.  (The inputs  *)
(* drawn below pass None only with the graph without nodes, where the      *)
(* via-point draw fails before any query is made.)                         *)
(***************************************************************************)
Result(kind, path, e) == [kind |-> kind, path |-> path, exc |-> e]

shortest_path(g, source, target) ==
  IF source = None /\ target = None THEN {Result("dict", <<>>, "none")}
  ELSE IF source = None
    THEN IF target \in g.nodes THEN {Result("dict", <<>>, "none")}
         ELSE {Result("raise", <<>>, "NodeNotFound")}
  ELSE IF target = None
    THEN IF source \in g.nodes THEN {Result("dict", <<>>, "none")}
         ELSE {Result("raise", <<>>, "NodeNotFound")}
  ELSE IF source \notin g.nodes \/ target \notin g.nodes
    THEN {Result("raise", <<>>, "NodeNotFound")}
  ELSE IF Dijkstra(g, source, target) = {}
    THEN {Result("raise", <<>>, "NetworkXNoPath")}
  ELSE {Result("path", p, "none") : p \in Dijkstra(g, source, target)}

(***************************************************************************)
(* The body of the try block, lines 47-55                                  *)
(***************************************************************************)

\* Slip: route = path1 + path2[2:], the slice starting one element late.
ConcatDropTwo(path1, path2) == path1 \o SubSeq(path2, 3, Len(path2))

\* route = path1 + path2[1:]
Concat(path1, path2) == path1 \o SubSeq(path2, 2, Len(path2))

\* G[u][v][0] exists for every consecutive pair of the route.
HasKey0(g, route) ==
  \A i \in 1..(Len(route) - 1) :
    /\ Adjacent(g, route[i], route[i + 1])
    /\ 0 \in DOMAIN g.edges[{route[i], route[i + 1]}]

\* length = sum(G[u][v][0]['length'] for u, v in zip(route[:-1], route[1:]))
RECURSIVE RouteLength(_, _)
RouteLength(g, route) ==
  IF Len(route) < 2 THEN 0
  ELSE g.edges[{route[1], route[2]}][0] + RouteLength(g, Tail(route))

\* Slip: the abs() left out, length - target_distance <= tolerance.
WithinToleranceNoAbs(length, target, tol) == length - target <= tol

\* Slip: the tolerance taken as the half-width of a window twice as wide.
WithinToleranceDoubled(length, target, tol) == Abs(length - target) <= 2 * tol

\* abs(length - target_distance) <= tolerance
WithinTolerance(length, target, tol) == Abs(length - target) <= tol

\* Slip: the membership test left out.
NotInSkipped(route, rts) == TRUE

\* route not in routes
NotIn(route, rts) == \A i \in 1..Len(rts) : rts[i] # route

\* Slip: except KeyError alone.
CaughtKeyErrorOnly(e) == e \in {"KeyError"}

\* except (nx.NetworkXNoPath, KeyError): continue
Caught(e) == e \in {"NetworkXNoPath", "KeyError"}

Outcome(e, rts) == [exc |-> e, routes |-> rts]

\* Lines 49-55 for the two results r1, r2 of the shortest-path queries.
\* path2[1:] on a dict raises TypeError (slices unhashable, Python < 3.12) or
\* KeyError (Python >= 3.12); a dict path1 plus a list raises TypeError.
BuildRoute(g, r1, r2, target, tol, rts) ==
  IF r2.kind = "dict" THEN {Outcome("TypeError", rts), Outcome("KeyError", rts)}
  ELSE IF r1.kind = "dict" THEN {Outcome("TypeError", rts)}
  ELSE LET route == Concat(r1.path, r2.path)
       IN  IF ~HasKey0(g, route) THEN {Outcome("KeyError", rts)}
           ELSE IF /\ WithinTolerance(RouteLength(g, route), target, tol)
                   /\ NotIn(route, rts)
                THEN {Outcome("none", Append(rts, route))}
                ELSE {Outcome("none", rts)}

\* Lines 47-55 for the drawn via-point mid: every possible outcome, the
\* exception that ends the body ("none" when it runs to its end) and the
\* routes list after it.
TryBody(g, s, e, mid, target, tol, rts) ==
  UNION {IF r1.kind = "raise" THEN {Outcome(r1.exc, rts)}
         ELSE UNION {IF r2.kind = "raise" THEN {Outcome(r2.exc, rts)}
                     ELSE BuildRoute(g, r1, r2, target, tol, rts)
                     : r2 \in shortest_path(g, mid, e)}
         : r1 \in shortest_path(g, s, mid)}

(***************************************************************************)
(* The state machine: one call of generate_alternative_routes              *)
(***************************************************************************)

\* Node ids a caller passes: what nearest_node_manual finds in the graph (a
\* node, or None when there is none), or an id the graph does not hold.
Ids(g) == nearest_node_manual(g) \cup {AbsentNode}

\* Slip: len(routes) <= k.
LoopConditionOffByOne(rts, kk, att) == Len(rts) <= kk /\ att < max_attempts

\* while len(routes) < k and attempts < max_attempts
LoopCondition(rts, kk, att) == Len(rts) < kk /\ att < max_attempts

Entered(g, s, e, t, tol, kk) ==
  /\ G = g /\ start = s /\ end = e
  /\ target_distance = t /\ tolerance = tol /\ k = kk
  /\ routes = <<>> /\ attempts = 0
  /\ pc = "loop" /\ exc = "none"

\* The state on entry to the loop (lines 37-40), for the inputs drawn.
Init ==
  \/ \E g \in SmallGraphs : \E s \in Ids(g), e \in Ids(g) :
       \E t \in Targets, tol \in Tolerances, kk \in 1..MaxK :
         Entered(g, s, e, t, tol, kk)
  \/ Entered(GCycle, 1, 1, 300, 50, default_k)

\* One iteration of the loop, lines 42-57.  random.choice raises IndexError on
\* an empty nodes_list, outside the try block.
Attempt ==
  /\ pc = "loop"
  /\ LoopCondition(routes, k, attempts)
  /\ attempts' = attempts + 1
  /\ IF G.nodes = {}
     THEN pc' = "raised" /\ exc' = "IndexError" /\ UNCHANGED routes
     ELSE \E mid_node \in G.nodes :
            \E o \in TryBody(G, start, end, mid_node, target_distance,
                             tolerance, routes) :
              IF o.exc = "none" \/ Caught(o.exc)
              THEN routes' = o.routes /\ UNCHANGED <<pc, exc>>
              ELSE pc' = "raised" /\ exc' = o.exc /\ UNCHANGED routes
  /\ UNCHANGED <<G, start, end, target_distance, tolerance, k>>

\* Line 59: the loop condition is false, return routes.
Return ==
  /\ pc = "loop"
  /\ ~LoopCondition(routes, k, attempts)
  /\ pc' = "done"
  /\ UNCHANGED <<G, start, end, target_distance, tolerance, k, routes, attempts, exc>>

Next == Attempt \/ Return

Spec == Init /\ [][Next]_vars

TypeOK ==
  /\ pc \in {"loop", "done", "raised"}
  /\ attempts \in 0..max_attempts
  /\ exc \in {"none", "IndexError", "NodeNotFound", "TypeError"}

(***************************************************************************)
(* Vocabulary of the properties                                            *)
(***************************************************************************)

Returned == pc = "done"

Raised == pc = "raised"

RouteSet == {routes[i] : i \in 1..Len(routes)}

\* Sum of the lengths of the edges G[u][v][0] along the consecutive pairs of r.
SumOfEdgeLengths(g, r) ==
  LET sum[i \in 0..(Len(r) - 1)] ==
        IF i = 0 THEN 0 ELSE sum[i - 1] + g.edges[{r[i], r[i + 1]}][0]
  IN  sum[Len(r) - 1]

\* Sum of the minimum edge length between each consecutive pair of r.
SumOfMinEdgeLengths(g, r) ==
  LET sum[i \in 0..(Len(r) - 1)] ==
        IF i = 0 THEN 0 ELSE sum[i - 1] + Weight(g, r[i], r[i + 1])
  IN  sum[Len(r) - 1]

Deviation(g, r) == Abs(SumOfEdgeLengths(g, r) - target_distance)

IsWalk(g, r) == \A i \in 1..(Len(r) - 1) : Adjacent(g, r[i], r[i + 1])

\* t can be reached from s in g.
Connected(g, s, t) == \E p \in PathsFrom(g, s, Cardinality(g.nodes)) : Last(p) = t

\* The 5-cycle scenario: start = end = A, 300 m +- 50 m, three routes.
CycleScenario ==
  /\ G = GCycle /\ start = 1 /\ end = 1
  /\ target_distance = 300 /\ tolerance = 50 /\ k = 3

(***************************************************************************)
(* C1: every route in the routes list, and so every returned route, has a  *)
(* sum of edge lengths within tolerance of target_distance, boundary       *)
(* included.  The edge between two consecutive nodes is the one the source *)
(* measures (G[u][v][0]).                                                  *)
(***************************************************************************)
C1_ToleranceContract ==
  \A r \in RouteSet : Deviation(G, r) <= tolerance

\* A returned route whose deviation equals a positive tolerance exactly.
C1_Witness ==
  /\ Returned
  /\ tolerance > 0
  /\ \E r \in RouteSet : Deviation(G, r) = tolerance

(***************************************************************************)
(* C2: with a start or end that is not a node of the graph (None from      *)
(* nearest_node_manual included) the call returns the empty list and never *)
(* raises.                                                                 *)
(***************************************************************************)
C2_AbsentNodeReturnsEmpty ==
  (start \notin G.nodes \/ end \notin G.nodes) =>
     /\ ~Raised
     /\ routes = <<>>

(***************************************************************************)
(* C3: on a graph with zero edges (the graph without nodes included) the   *)
(* call returns an empty result and never raises.                          *)
(***************************************************************************)
C3_ZeroEdgesReturnsEmpty ==
  (DOMAIN G.edges = {}) =>
     /\ ~Raised
     /\ Returned => routes = <<>>

(***************************************************************************)
(* C4: in every state of the loop and in the result, no two elements of    *)
(* routes are the same node sequence.                                      *)
(***************************************************************************)
C4_NoDuplicateRoutes ==
  \A i, j \in 1..Len(routes) : i # j => routes[i] # routes[j]

\* Every via-point yields the one route already collected, more attempts ran
\* than routes were collected, and a second route was still wanted: the
\* route was drawn again and not added.
C4_Witness ==
  /\ Len(routes) = 1
  /\ k > 1
  /\ attempts > 1
  /\ \A mid \in G.nodes :
       \A o \in TryBody(G, start, end, mid, target_distance, tolerance, <<>>) :
         o.routes = routes

(***************************************************************************)
(* C5: every route in routes begins at start, ends at end, joins each      *)
(* consecutive pair by an edge of the graph, and does not repeat the       *)
(* via-point at the junction of its two legs.                              *)
(***************************************************************************)
C5_WellFormedRoutes ==
  \A r \in RouteSet :
    /\ Len(r) >= 1
    /\ r[1] = start
    /\ r[Len(r)] = end
    /\ IsWalk(G, r)
    /\ \A i \in 1..(Len(r) - 1) : r[i] # r[i + 1]

\* A returned closed walk start -> mid -> start: its two legs are joined at
\* a via-point inside the route.
C5_Witness ==
  /\ Returned
  /\ start = end
  /\ \E r \in RouteSet : Len(r) >= 3

(***************************************************************************)
(* C6: the call terminates.  The loop runs at most max_attempts (1000)     *)
(* iterations, every iteration consumes one attempt whether or not it adds *)
(* a route, no iteration runs once k routes are collected, the call is     *)
(* never stuck inside the loop and does nothing after it, and it returns   *)
(* with k routes or, the budget exhausted, with the fewer routes collected *)
(* (at most k).  The attempts counter is the variant: it grows by one in   *)
(* every iteration and never passes max_attempts.                          *)
(***************************************************************************)
C6_Terminates ==
  /\ [](/\ attempts <= max_attempts
        /\ Len(routes) <= k
        /\ (pc = "loop" /\ Len(routes) = k) => ~ENABLED Attempt
        /\ pc = "loop" => ENABLED Next
        /\ Returned => (Len(routes) = k \/ attempts = max_attempts))
  /\ [][pc = "loop" =>
          \/ pc' = "done" /\ routes' = routes /\ attempts' = attempts
          \/ /\ attempts' = attempts + 1
             /\ \/ routes' = routes
                \/ /\ Len(routes') = Len(routes) + 1
                   /\ SubSeq(routes', 1, Len(routes)) = routes]_vars
  /\ [][pc # "loop" => UNCHANGED vars]_vars

\* The budget was exhausted and the call returned the fewer routes it had.
C6_Witness ==
  /\ Returned
  /\ attempts = max_attempts
  /\ 0 < Len(routes)
  /\ Len(routes) < k

(***************************************************************************)
(* C7: every route in routes has at least two nodes; in loop mode the      *)
(* route consisting of the start node alone is never collected.            *)
(***************************************************************************)
C7_NoDegenerateRoute ==
  \A r \in RouteSet : Len(r) >= 2

(***************************************************************************)
(* C8: the length compared against the tolerance resolves parallel edges   *)
(* to the shortest one, so for every collected route it equals the sum of  *)
(* the minimum edge lengths, the sum of the two shortest-path legs.        *)
(***************************************************************************)
C8_MinimumEdgeLength ==
  \A r \in RouteSet : SumOfEdgeLengths(G, r) = SumOfMinEdgeLengths(G, r)

(***************************************************************************)
(* C9 as stated: in the 5-cycle scenario the call returns at least one     *)
(* route of length exactly 300 and no route of length 500.                 *)
(***************************************************************************)
C9_CycleHasRouteOf300 ==
  (CycleScenario /\ Returned) =>
     /\ \E r \in RouteSet : SumOfEdgeLengths(G, r) = 300
     /\ \A r \in RouteSet : SumOfEdgeLengths(G, r) # 500

(***************************************************************************)
(* C9 amended: in the 5-cycle scenario no route is ever collected (every   *)
(* via-point gives a closed walk of 0, 200 or 400 m), so the call returns  *)
(* the empty list after max_attempts attempts: no route of length 300 and  *)
(* none of length 500.                                                     *)
(***************************************************************************)
C9_CycleReturnsNothing ==
  CycleScenario =>
     /\ routes = <<>>
     /\ ~Raised
     /\ Returned => attempts = max_attempts

C9_Witness == CycleScenario /\ Returned

(***************************************************************************)
(* C10: with start and end both nodes of the graph but in different        *)
(* connected components, every attempt ends in NetworkXNoPath, which is    *)
(* skipped; nothing is raised, no route is collected, and the call returns *)
(* the empty list once the attempt budget is spent.                        *)
(***************************************************************************)
C10_DisconnectedReturnsEmpty ==
  (start \in G.nodes /\ end \in G.nodes /\ ~Connected(G, start, end)) =>
     /\ ~Raised
     /\ routes = <<>>
     /\ Returned => attempts = max_attempts
     /\ \A mid \in G.nodes :
          \A o \in TryBody(G, start, end, mid, target_distance, tolerance, routes) :
            o.exc = "NetworkXNoPath"

C10_Witness ==
  /\ start \in G.nodes /\ end \in G.nodes /\ ~Connected(G, start, end)
  /\ Returned
  /\ attempts = max_attempts

====
